---- MODULE Spec2Model ----
(***************************************************************************)
(* Model of the loto notification service (richer variant):                *)
(*   db.ts       the devices table and its statements,                     *)
(*   server      POST /devices/register, /devices/remove, /push/token,     *)
(*               /push/user, /push/all,                                    *)
(*   kafka       handleSendUserNotification.                               *)
(* The devices table is a set of rows.  A transaction (upsertDevice) keeps *)
(* its uncommitted writes in ins (row versions it created) and del         *)
(* (committed row versions it deleted or superseded, which it holds        *)
(* locked); they reach the table at COMMIT.  Statements run under          *)
(* PostgreSQL READ COMMITTED: a statement that must wait for another       *)
(* transaction's row lock or uncommitted index entry is not enabled until  *)
(* that transaction has ended.                                             *)
(***************************************************************************)
EXTENDS Integers, Sequences, FiniteSets

\* ------------------------------------------------------------------ bounds
NumDevices == 2
NumTokens == 2
MaxUser == 2
MaxClock == 1
\* the longest batch for which every provider response is enumerated
MaxFullResponse == 2
\* the longest token list of a /push/user dispatch
MaxTokens == 1200
\* the largest number of active devices of a /push/all dispatch
MaxActive == 45

\* SQL NULL / JS null-or-undefined, for the integer-valued columns and inputs.
NULL == -9

DeviceIds == 1..NumDevices
Tokens == 1..NumTokens
UserIds == 1..MaxUser
GameIds == {1}
RegClients == {1, 2}

\* provider batch ceiling: chunk(tokens, 500)
ChunkSize == 500

VARIABLES
    devices,    \* the committed devices table: a set of rows
    clock,      \* now()
    reg,        \* POST /devices/register handlers: the open upsertDevice calls
    pu,         \* the POST /push/user handler
    pa,         \* the POST /push/all handler
    pt,         \* the POST /push/token handler
    kf          \* the event-bus handler, handleSendUserNotification

vars == <<devices, clock, reg, pu, pa, pt, kf>>

\* ------------------------------------------------------------------ schema
\* fcm_token text NOT NULL UNIQUE.  With the constraint dropped no statement
\* waits for, or fails on, a second row holding the same token.
FcmTokenUniqueDropped == FALSE

FcmTokenUnique == TRUE

Row(d, u, g, t, a, ts) ==
    [deviceId |-> d, userId |-> u, gameId |-> g, fcmToken |-> t,
     active |-> a, updatedAt |-> ts]

\* Rows written before the second migration: game_id NULL, active false.
LegacyRow(d, u, t) == Row(d, u, NULL, t, FALSE, 0)

TokensOf(rows) == {r.fcmToken : r \in rows}

\* primary key and unique index hold of a set of rows
WellFormed(rows) ==
    \A r1, r2 \in rows :
        (r1.deviceId = r2.deviceId \/ r1.fcmToken = r2.fcmToken) => r1 = r2

\* ------------------------------------------------------------------ db.ts
IdleReg ==
    [pc |-> "idle", deviceId |-> NULL, userId |-> NULL, gameId |-> NULL,
     fcmToken |-> NULL, txStart |-> 0, ins |-> {}, del |-> {}, status |-> 0]

InTx(c) == reg[c].pc \in {"delete", "update", "insert", "commit"}

\* what transaction c reads: the committed rows and its own writes
View(c) == (devices \ reg[c].del) \cup reg[c].ins

\* committed row versions locked by an open transaction other than c
LockedByOther(c) ==
    UNION {reg[o].del : o \in {x \in RegClients \ {c} : InTx(x)}}

\* uncommitted row versions of open transactions other than c
PendingOfOther(c) ==
    UNION {reg[o].ins : o \in {x \in RegClients \ {c} : InTx(x)}}

\* rows locked by any open transaction (what an autocommit statement waits for)
Locked == UNION {reg[o].del : o \in {x \in RegClients : InTx(x)}}

\* DELETE FROM devices WHERE fcm_token = $1 AND device_id <> $2
DeleteOthersTargets(rows, t, d) ==
    {r \in rows : r.fcmToken = t /\ r.deviceId # d}

\* UPDATE devices SET active = false WHERE device_id = $1
MarkInactive(r) == [r EXCEPT !.active = FALSE]

\* ON CONFLICT (device_id) DO UPDATE SET user_id, game_id, fcm_token,
\* active = EXCLUDED.*, updated_at = now()
OnConflictKeepsToken(old, new) == [new EXCEPT !.fcmToken = old.fcmToken]

OnConflictDoNothing(old, new) == old

OnConflictKeepsUser(old, new) == [new EXCEPT !.userId = old.userId]

OnConflictUpdate(old, new) == new

\* the unique index on fcm_token makes the INSERT wait for an open
\* transaction that wrote or deleted a row with the same token
InsertWaitsOnToken(c, d, t) ==
    /\ FcmTokenUnique
    /\ \E r \in PendingOfOther(c) \cup LockedByOther(c) :
          r.fcmToken = t /\ r.deviceId # d

\* a visible row of another device holds the token: unique violation
UniqueViolation(c, d, t) ==
    /\ FcmTokenUnique
    /\ \E r \in View(c) : r.fcmToken = t /\ r.deviceId # d

\* getTokensByUserId: SELECT fcm_token WHERE user_id = $1 AND active = true
GetTokensIgnoringActive(rows, u) ==
    {r.fcmToken : r \in {q \in rows : q.userId = u}}

getTokensByUserId(rows, u) ==
    {r.fcmToken : r \in {q \in rows : q.userId = u /\ q.active}}

\* DELETE FROM devices WHERE fcm_token = $1
DeleteTokenTargets(rows, t) == {r \in rows : r.fcmToken = t}

\* DELETE ... WHERE device_id = $1 AND fcm_token = $2 AND user_id = $3
\*   AND game_id = $4
DeleteByIdentifiersTargets(rows, d, t, u, g) ==
    {r \in rows : r.deviceId = d /\ r.fcmToken = t /\ r.userId = u
                  /\ r.gameId = g}

\* ------------------------------------------------------- history
\* What the properties need to know of the past.  registered: the tokens a
\* registration committed since the /push/user dispatch pruned them.
\* changed: the table was written while a broadcast was running.
ObservePa(rows) ==
    pa' = [pa EXCEPT !.changed =
              @ \/ ((pa.pc # "idle" \/ pa.status # 0) /\ rows # devices)]

Observe(rows, registeredTokens) ==
    /\ pu' = [pu EXCEPT !.registered = @ \cup (registeredTokens \cap pu.pruned)]
    /\ ObservePa(rows)

\* ------------------------------------------------------- POST /devices/register
\* Validation, pool.connect and BEGIN.  A null field answers 400.
RegisterRequest(c, body) ==
    LET d == body.deviceId
        u == body.userId
        g == body.gameId
        t == body.fcmToken
    IN
    /\ reg[c].pc \in {"idle", "done"}
    /\ IF d = NULL \/ t = NULL \/ u = NULL \/ g = NULL
       THEN reg' = [reg EXCEPT ![c] =
                [IdleReg EXCEPT !.pc = "done", !.status = 400]]
       ELSE reg' = [reg EXCEPT ![c] =
                [IdleReg EXCEPT !.pc = "delete", !.deviceId = d, !.userId = u,
                                !.gameId = g, !.fcmToken = t,
                                !.txStart = clock]]
    /\ UNCHANGED <<devices, clock, pu, pa, pt, kf>>

\* step (a): delete the other rows holding the token
UpsertDelete(c) ==
    LET me == reg[c]
        targets == DeleteOthersTargets(View(c), me.fcmToken, me.deviceId)
    IN  /\ me.pc = "delete"
        /\ targets \cap LockedByOther(c) = {}
        /\ reg' = [reg EXCEPT ![c] =
                [me EXCEPT !.pc = "update",
                           !.del = me.del \cup (targets \cap devices),
                           !.ins = me.ins \ targets]]
        /\ UNCHANGED <<devices, clock, pu, pa, pt, kf>>

\* step (b): mark the device's own row inactive
UpsertMarkInactive(c) ==
    LET me == reg[c]
        targets == {r \in View(c) : r.deviceId = me.deviceId}
    IN  /\ me.pc = "update"
        /\ targets \cap LockedByOther(c) = {}
        /\ reg' = [reg EXCEPT ![c] =
                [me EXCEPT !.pc = "insert",
                           !.del = me.del \cup (targets \cap devices),
                           !.ins = (me.ins \ targets)
                                   \cup {MarkInactive(r) : r \in targets}]]
        /\ UNCHANGED <<devices, clock, pu, pa, pt, kf>>

\* step (c): INSERT ... ON CONFLICT (device_id) DO UPDATE, when it succeeds
UpsertInsert(c) ==
    LET me == reg[c]
        new == Row(me.deviceId, me.userId, me.gameId, me.fcmToken, TRUE,
                   me.txStart)
        old == {r \in View(c) : r.deviceId = me.deviceId}
    IN  /\ me.pc = "insert"
        /\ old \cap LockedByOther(c) = {}
        /\ ~ \E r \in PendingOfOther(c) : r.deviceId = me.deviceId
        /\ ~ InsertWaitsOnToken(c, me.deviceId, me.fcmToken)
        /\ ~ UniqueViolation(c, me.deviceId, me.fcmToken)
        /\ reg' = [reg EXCEPT ![c] =
                [me EXCEPT !.pc = "commit",
                           !.del = me.del \cup (old \cap devices),
                           !.ins = (me.ins \ old) \cup
                                   (IF old = {} THEN {new}
                                    ELSE {OnConflictUpdate(r, new) : r \in old})]]
        /\ UNCHANGED <<devices, clock, pu, pa, pt, kf>>

\* COMMIT: the transaction's writes reach the table, and the handler answers
\* res.json({ok: true, deviceId, userId, fcmToken}).  The record keeps the
\* answer, and the rows the call deleted or superseded, until the client's
\* next request.
Committed(rows, del, ins) == (rows \ del) \cup ins

UpsertCommit(c) ==
    /\ reg[c].pc = "commit"
    /\ devices' = Committed(devices, reg[c].del, reg[c].ins)
    /\ reg' = [reg EXCEPT ![c] =
            [IdleReg EXCEPT !.pc = "done", !.status = 200,
                            !.deviceId = reg[c].deviceId,
                            !.userId = reg[c].userId,
                            !.fcmToken = reg[c].fcmToken,
                            !.del = reg[c].del]]
    /\ Observe(Committed(devices, reg[c].del, reg[c].ins), {reg[c].fcmToken})
    /\ UNCHANGED <<clock, pt, kf>>

\* ROLLBACK leaves the table as it is
RollbackAsCommit(rows, del, ins) == (rows \ del) \cup ins

RolledBack(rows, del, ins) == rows

\* A statement of the transaction raises (the INSERT on a unique violation,
\* any of the three on a deadlock or a lost connection): catch, ROLLBACK,
\* rethrow, and the handler answers sendError(res, 500, message).
UpsertFail(c) ==
    /\ reg[c].pc \in {"delete", "update", "insert"}
    /\ devices' = RolledBack(devices, reg[c].del, reg[c].ins)
    /\ reg' = [reg EXCEPT ![c] =
            [IdleReg EXCEPT !.pc = "done", !.status = 500,
                            !.deviceId = reg[c].deviceId,
                            !.fcmToken = reg[c].fcmToken,
                            !.del = reg[c].del]]
    /\ Observe(RolledBack(devices, reg[c].del, reg[c].ins), {})
    /\ UNCHANGED <<clock, pt, kf>>

\* ------------------------------------------------------- POST /devices/remove
DevicesRemove(d, t, u, g) ==
    LET targets == DeleteByIdentifiersTargets(devices, d, t, u, g)
    IN  /\ d # NULL /\ t # NULL /\ u # NULL /\ g # NULL
        /\ targets \cap Locked = {}
        /\ devices' = devices \ targets
        /\ Observe(devices \ targets, {})
        /\ UNCHANGED <<clock, reg, pt, kf>>

\* deleteToken, as the dead-token pruner calls it
DeleteToken(t) ==
    LET targets == DeleteTokenTargets(devices, t)
    IN  /\ targets \cap Locked = {}
        /\ devices' = devices \ targets
        /\ Observe(devices \ targets, {})
        /\ UNCHANGED <<clock, reg, pt, kf>>

\* ------------------------------------------------------- the push provider
\* A per-token result of sendEachForMulticast: success, or a failure with
\* the provider's error code.
FailureCodes ==
    {"messaging/registration-token-not-registered",
     "messaging/invalid-registration-token",
     "messaging/internal-error"}

Outcomes == {"success"} \cup FailureCodes

\* the responses the provider may give to a batch of n tokens: every
\* combination for a short batch, a sample with successes, permanent and
\* transient failures for a long one
SampleResponses(n) ==
    { [i \in 1..n |-> "success"],
      [i \in 1..n |-> IF i = 1
                      THEN "messaging/registration-token-not-registered"
                      ELSE "success"],
      [i \in 1..n |-> IF i = n THEN "messaging/invalid-registration-token"
                      ELSE IF i = 1 THEN "messaging/internal-error"
                      ELSE "success"] }

Responses(n) ==
    IF n <= MaxFullResponse THEN [1..n -> Outcomes] ELSE SampleResponses(n)

successCount(resp) == Cardinality({i \in DOMAIN resp : resp[i] = "success"})

failureCount(resp) == Cardinality({i \in DOMAIN resp : resp[i] # "success"})

\* ------------------------------------------------------- POST /push/user
Range(seq) == {seq[i] : i \in DOMAIN seq}

\* the orders in which a SELECT without ORDER BY may return a set of rows
Orderings(S) ==
    {f \in [1..Cardinality(S) -> S] :
        \A i, j \in 1..Cardinality(S) : f[i] = f[j] => i = j}

\* arr.slice(from, to), 0-based, to exclusive
sliceInclusive(arr, from, to) ==
    SubSeq(arr, from + 1, IF to + 1 < Len(arr) THEN to + 1 ELSE Len(arr))

slice(arr, from, to) ==
    SubSeq(arr, from + 1, IF to < Len(arr) THEN to ELSE Len(arr))

\* for (let i = 0; i < arr.length; i += size) out.push(arr.slice(i, i + size))
RECURSIVE chunkFrom(_, _, _)
chunkFrom(arr, size, i) ==
    IF i < Len(arr)
    THEN <<slice(arr, i, i + size)>> \o chunkFrom(arr, size, i + size)
    ELSE <<>>

chunk(arr, size) == chunkFrom(arr, size, 0)

\* code.includes('registration-token-not-registered') ||
\* code.includes('invalid-registration-token')
IsDeadCodeOnlyUnregistered(code) ==
    code \in {"messaging/registration-token-not-registered"}

IsDeadCode(code) ==
    code \in {"messaging/registration-token-not-registered",
              "messaging/invalid-registration-token"}

\* the tokens of part the response classifies as dead, in order
deadTokensOf(part, resp) ==
    LET idxs == SelectSeq([i \in 1..Len(part) |-> i],
                          LAMBDA i : resp[i] # "success" /\ IsDeadCode(resp[i]))
    IN  [k \in 1..Len(idxs) |-> part[idxs[k]]]

IdlePu ==
    [pc |-> "idle", userId |-> NULL, tokens |-> <<>>, idx |-> 0,
     sent |-> 0, failed |-> 0, deadTokens |-> <<>>, pending |-> {},
     status |-> 0, calls |-> <<>>, results |-> {}, pruned |-> {},
     registered |-> {}, raised |-> 0]

\* Validation, then the lookup of the user's tokens and the chunking.
PushUserRequest(u, title, body) ==
    /\ pu.pc = "idle" /\ pu.pending = {}
    /\ IF u \in {NULL, 0} \/ ~title \/ ~body
       THEN pu' = [IdlePu EXCEPT !.status = 400]
       ELSE \/ pu' = [IdlePu EXCEPT !.status = 500]
            \/ \E tokens \in Orderings(getTokensByUserId(devices, u)) :
                  pu' = IF tokens = <<>>
                        THEN [IdlePu EXCEPT !.status = 200]
                        ELSE [IdlePu EXCEPT !.pc = "send", !.userId = u,
                                            !.tokens = tokens, !.idx = 1]
    /\ UNCHANGED <<devices, clock, reg, pa, pt, kf>>

\* One pass of the loop over the chunks: the multicast call returns.
PushUserSend ==
    /\ pu.pc = "send"
    /\ LET parts == chunk(pu.tokens, ChunkSize)
           part == parts[pu.idx]
       IN  \E resp \in Responses(Len(part)) :
             LET dead == pu.deadTokens \o deadTokensOf(part, resp)
                 last == pu.idx = Len(parts)
             IN  pu' = [pu EXCEPT
                         !.sent = @ + successCount(resp),
                         !.failed = @ + failureCount(resp),
                         !.deadTokens = dead,
                         !.calls = Append(@, part),
                         !.results = @ \cup
                             {<<part[i], resp[i]>> : i \in
                                 {j \in 1..Len(part) : resp[j] # "success"}},
                         !.idx = @ + 1,
                         !.pc = IF last THEN "prune" ELSE "send",
                         !.pending = IF last THEN Range(dead) ELSE {}]
    /\ UNCHANGED <<devices, clock, reg, pa, pt, kf>>

\* The multicast call raises.
\* (a loop that logs the error and goes on with the next chunk)
PushUserRaiseSkips ==
    /\ pu.pc = "send"
    /\ LET last == pu.idx = Len(chunk(pu.tokens, ChunkSize))
       IN  pu' = [pu EXCEPT !.raised = pu.idx, !.idx = @ + 1,
                            !.pc = IF last THEN "prune" ELSE "send",
                            !.pending = IF last THEN Range(pu.deadTokens)
                                        ELSE {}]
    /\ UNCHANGED <<devices, clock, reg, pa, pt, kf>>

\* (a handler that deletes the dead tokens it has collected on its way out)
PushUserRaisePrunes ==
    /\ pu.pc = "send"
    /\ pu' = [pu EXCEPT !.pc = "idle", !.status = 500, !.raised = pu.idx,
                        !.pending = Range(pu.deadTokens)]
    /\ UNCHANGED <<devices, clock, reg, pa, pt, kf>>

\* The loop is left through the catch and the handler answers 500: the
\* deleteToken calls, which follow the loop inside the try, are not made.
PushUserRaise ==
    /\ pu.pc = "send"
    /\ pu' = [pu EXCEPT !.pc = "idle", !.status = 500, !.raised = pu.idx]
    /\ UNCHANGED <<devices, clock, reg, pa, pt, kf>>

\* One of the deleteToken calls issued by Promise.all runs.
PushUserDelete(t) ==
    LET targets == DeleteTokenTargets(devices, t)
    IN  /\ t \in pu.pending
        /\ targets \cap Locked = {}
        /\ devices' = devices \ targets
        /\ pu' = [pu EXCEPT !.pending = @ \ {t}, !.pruned = @ \cup {t},
                            !.registered = @ \ {t}]
        /\ ObservePa(devices \ targets)
        /\ UNCHANGED <<clock, reg, pt, kf>>

\* One of the deleteToken calls rejects: Promise.all rejects at once and the
\* handler answers 500, while the other calls are still under way.
PushUserDeleteFails(t) ==
    /\ t \in pu.pending
    /\ pu' = IF pu.pc = "prune"
             THEN [pu EXCEPT !.pending = @ \ {t}, !.pc = "idle", !.status = 500]
             ELSE [pu EXCEPT !.pending = @ \ {t}]
    /\ UNCHANGED <<devices, clock, reg, pa, pt, kf>>

\* Every deleteToken call has resolved: res.json({ok: true, sent, failed,
\* removedDead})
PushUserRespond ==
    /\ pu.pc = "prune" /\ pu.pending = {}
    /\ pu' = [pu EXCEPT !.pc = "idle", !.status = 200]
    /\ UNCHANGED <<devices, clock, reg, pa, pt, kf>>

\* ------------------------------------------------------- POST /push/all
\* const limit = 20
limit == 20

\* ORDER BY updated_at DESC, device_id ASC
Before(r1, r2) ==
    \/ r1.updatedAt > r2.updatedAt
    \/ r1.updatedAt = r2.updatedAt /\ r1.deviceId < r2.deviceId

Ordered(rows) ==
    [i \in 1..Cardinality(rows) |->
        CHOOSE r \in rows : Cardinality({q \in rows : Before(q, r)}) = i - 1]

\* SELECT COUNT(*) FROM devices WHERE active = true
getActiveTokensCount(rows) == Cardinality({r \in rows : r.active})

\* SELECT fcm_token ... WHERE active = true ORDER BY ... LIMIT $1 OFFSET $2
getAllActiveTokensPage(rows, lim, offset) ==
    LET sorted == Ordered({r \in rows : r.active})
        stop == IF offset + lim < Len(sorted) THEN offset + lim ELSE Len(sorted)
    IN  [i \in 1..(IF stop > offset THEN stop - offset ELSE 0) |->
            sorted[offset + i].fcmToken]

\* Math.ceil(total / limit)
ceilDiv(a, b) == IF a % b = 0 THEN a \div b ELSE a \div b + 1

\* const offset = page * limit
pageOffsetUnscaled(page, lim) == page

pageOffset(page, lim) == page * lim

IdlePa ==
    [pc |-> "idle", total |-> 0, page |-> 0, tokens |-> <<>>, sent |-> 0,
     failed |-> 0, status |-> 0, offsets |-> <<>>, fetched |-> <<>>,
     reported |-> {}, changed |-> FALSE]

\* what the handler does after a page: the next one, or res.json({ok: true,
\* sent, failed})
AfterPage(p) ==
    IF p.page + 1 < ceilDiv(p.total, limit)
    THEN [p EXCEPT !.page = @ + 1, !.pc = "page", !.tokens = <<>>]
    ELSE [p EXCEPT !.page = @ + 1, !.pc = "idle", !.tokens = <<>>,
                   !.status = 200]

\* Validation and the count of the active rows.
PushAllRequest(title, body) ==
    /\ pa.pc = "idle"
    /\ IF ~title \/ ~body
       THEN pa' = [IdlePa EXCEPT !.status = 400]
       ELSE \/ pa' = [IdlePa EXCEPT !.status = 500]
            \/ LET total == getActiveTokensCount(devices)
               IN  pa' = IF total = 0
                         THEN [IdlePa EXCEPT !.status = 200]
                         ELSE [IdlePa EXCEPT !.pc = "page", !.total = total]
    /\ UNCHANGED <<devices, clock, reg, pu, pt, kf>>

\* One page is read; an empty page is skipped.
PushAllPage ==
    /\ pa.pc = "page"
    /\ LET offset == pageOffset(pa.page, limit)
           tokens == getAllActiveTokensPage(devices, limit, offset)
           read == [pa EXCEPT !.offsets = Append(@, offset),
                              !.fetched = @ \o tokens]
       IN  pa' = IF tokens = <<>>
                 THEN AfterPage(read)
                 ELSE [read EXCEPT !.pc = "send", !.tokens = tokens]
    /\ UNCHANGED <<devices, clock, reg, pu, pt, kf>>

\* The multicast call for the page returns: only the counts are read.
PushAllSend ==
    /\ pa.pc = "send"
    /\ \E resp \in Responses(Len(pa.tokens)) :
          pa' = AfterPage([pa EXCEPT
                    !.sent = @ + successCount(resp),
                    !.failed = @ + failureCount(resp),
                    !.reported = @ \cup
                        {<<pa.tokens[i], resp[i]>> : i \in
                            {j \in 1..Len(pa.tokens) : resp[j] # "success"}}])
    /\ UNCHANGED <<devices, clock, reg, pu, pt, kf>>

\* The page query or the multicast call raises: sendError(res, 500, ...).
PushAllRaise ==
    /\ pa.pc \in {"page", "send"}
    /\ pa' = [pa EXCEPT !.pc = "idle", !.status = 500]
    /\ UNCHANGED <<devices, clock, reg, pu, pt, kf>>

\* ------------------------------------------------------- POST /push/token
\* The last single-message request: the server variant and the route that
\* took it, the status answered, and the token and error code of the send.
IdlePt ==
    [status |-> 0, token |-> NULL, code |-> "", server |-> "", route |-> ""]

\* fcm().send({token, ...}) resolves with a message id, or rejects with the
\* provider's error code; nothing else is done with either.
PushToken(token, title, body) ==
    LET req == [IdlePt EXCEPT !.server = "richer", !.route = "/push/token"]
    IN  /\ IF token = NULL \/ ~title \/ ~body
           THEN pt' = [req EXCEPT !.status = 400]
           ELSE \/ pt' = [req EXCEPT !.status = 200, !.token = token]
                \/ \E code \in FailureCodes :
                      pt' = [req EXCEPT !.status = 500, !.token = token,
                                        !.code = code]
        /\ UNCHANGED <<devices, clock, reg, pu, pa, kf>>

\* ------------------------------------------------------- base variant
\* POST /push/token of the base server
BasePushToken(token, title, body) ==
    LET req == [IdlePt EXCEPT !.server = "base", !.route = "/push/token"]
    IN  /\ IF token = NULL \/ ~title \/ ~body
           THEN pt' = [req EXCEPT !.status = 400]
           ELSE \/ pt' = [req EXCEPT !.status = 200, !.token = token]
                \/ \E code \in FailureCodes :
                      pt' = [req EXCEPT !.status = 500, !.token = token,
                                        !.code = code]
        /\ UNCHANGED <<devices, clock, reg, pu, pa, kf>>

\* POST /push/topic of the base server: fcm().send({topic, ...})
BasePushTopic(title, body) ==
    LET req == [IdlePt EXCEPT !.server = "base", !.route = "/push/topic"]
    IN  /\ IF ~title \/ ~body
           THEN pt' = [req EXCEPT !.status = 400]
           ELSE \/ pt' = [req EXCEPT !.status = 200]
                \/ pt' = [req EXCEPT !.status = 500,
                                     !.code = "messaging/internal-error"]
        /\ UNCHANGED <<devices, clock, reg, pu, pa, kf>>

\* ------------------------------------------------------- response bodies
\* res.status(status).json({ ok: false, message })
sendError(message) == [ok |-> FALSE, message |-> message]

\* the body of the answer of POST /devices/register (richer server)
RegisterBody(c) ==
    IF reg[c].status = 200
    THEN [ok |-> TRUE, deviceId |-> reg[c].deviceId,
          userId |-> reg[c].userId, fcmToken |-> reg[c].fcmToken]
    ELSE sendError("register")

\* the body of the answer of POST /push/user (richer server)
PushUserBody ==
    IF pu.status # 200 THEN sendError("push/user")
    ELSE IF pu.tokens = <<>>
    THEN [ok |-> TRUE, sent |-> 0, info |-> "No tokens for user"]
    ELSE [ok |-> TRUE, sent |-> pu.sent, failed |-> pu.failed,
          removedDead |-> Len(pu.deadTokens)]

\* the body of the answer of POST /push/all (richer server)
PushAllBody ==
    IF pa.status # 200 THEN sendError("push/all")
    ELSE IF pa.total = 0
    THEN [ok |-> TRUE, sent |-> 0, info |-> "No active users"]
    ELSE [ok |-> TRUE, sent |-> pa.sent, failed |-> pa.failed]

\* the body of the answer of the last single-message request
PushTokenBody ==
    IF pt.status = 200 THEN [ok |-> TRUE, msgId |-> "id"]
    ELSE IF pt.server = "richer" THEN sendError(pt.code)
    ELSE IF pt.status = 400 THEN [error |-> "title, body are required"]
    ELSE [ok |-> FALSE, error |-> pt.code]

\* ------------------------------------------------------- event bus
\* JavaScript values of data.userId: a string, a number (counted in halves,
\* so that 3 halves is 1.5), NaN, or undefined.
JsString(s) == [type |-> "string", str |-> s, nan |-> FALSE, halves |-> 0]

JsNumber(h) == [type |-> "number", str |-> "", nan |-> FALSE, halves |-> h]

JsNaN == [type |-> "number", str |-> "", nan |-> TRUE, halves |-> 0]

JsUndefined == [type |-> "undefined", str |-> "", nan |-> FALSE, halves |-> 0]

\* Number(text)
Number(text) ==
    CASE text = "" -> JsNumber(0)
      [] text = "0" -> JsNumber(0)
      [] text = "1" -> JsNumber(2)
      [] text = "2" -> JsNumber(4)
      [] text = "-1" -> JsNumber(-2)
      [] text = "1.5" -> JsNumber(3)
      [] OTHER -> JsNaN

\* data?.userId ?? ''
orEmpty(v) == IF v.type = "undefined" THEN JsString("") ELSE v

\* typeof userIdRaw === 'string' ? Number(userIdRaw) : userIdRaw
toUserId(raw) == IF raw.type = "string" THEN Number(raw.str) ELSE raw

\* !userId || Number.isNaN(userId)
rejectsUserId(v) == (v.halves = 0 /\ ~ v.nan) \/ v.nan

IsInteger(v) == ~ v.nan /\ v.halves % 2 = 0

IdleKf ==
    [pc |-> "idle", raw |-> JsUndefined, tokens |-> <<>>, idx |-> 0,
     deadTokens |-> <<>>, pending |-> {}, lookups |-> 0, calls |-> <<>>,
     outcome |-> "", raised |-> 0, pruned |-> {}]

\* eachMessage: JSON.parse, the switch on eventName, validation, and the
\* lookup of the user's tokens.  A userId that is not an integer is refused
\* by the bigint parameter of the query, which the handler catches.
KafkaMessage(valid, eventName, rawUserId, title, body) ==
    /\ kf.pc = "idle" /\ kf.pending = {}
    /\ LET userId == toUserId(orEmpty(rawUserId))
           got == [IdleKf EXCEPT !.raw = rawUserId]
       IN  IF ~valid \/ eventName # "SendUserNotification"
           THEN kf' = [IdleKf EXCEPT !.outcome = "ignored"]
           ELSE IF rejectsUserId(userId) \/ ~title \/ ~body
           THEN kf' = [got EXCEPT !.outcome = "invalid"]
           ELSE IF ~ IsInteger(userId)
           THEN kf' = [got EXCEPT !.lookups = 1, !.outcome = "lookup failed"]
           ELSE \/ kf' = [got EXCEPT !.lookups = 1, !.outcome = "lookup failed"]
                \/ \E tokens \in Orderings(
                          getTokensByUserId(devices, userId.halves \div 2)) :
                      kf' = IF tokens = <<>>
                            THEN [got EXCEPT !.lookups = 1,
                                             !.outcome = "no tokens"]
                            ELSE [got EXCEPT !.lookups = 1, !.pc = "send",
                                             !.tokens = tokens, !.idx = 1]
    /\ UNCHANGED <<devices, clock, reg, pu, pa, pt>>

\* One pass of the loop over the chunks: the multicast call returns.
KafkaSend ==
    /\ kf.pc = "send"
    /\ LET parts == chunk(kf.tokens, ChunkSize)
           part == parts[kf.idx]
       IN  \E resp \in Responses(Len(part)) :
             LET dead == kf.deadTokens \o deadTokensOf(part, resp)
                 last == kf.idx = Len(parts)
             IN  kf' = [kf EXCEPT
                         !.deadTokens = dead,
                         !.calls = Append(@, part),
                         !.idx = @ + 1,
                         !.pc = IF ~ last THEN "send"
                                ELSE IF dead = <<>> THEN "idle" ELSE "prune",
                         !.outcome = IF last /\ dead = <<>> THEN "done" ELSE "",
                         !.pending = IF last THEN Range(dead) ELSE {}]
    /\ UNCHANGED <<devices, clock, reg, pu, pa, pt>>

\* The multicast call raises: nothing in the handler catches it.
KafkaRaise ==
    /\ kf.pc = "send"
    /\ kf' = [kf EXCEPT !.pc = "idle", !.outcome = "rejected",
                        !.raised = kf.idx]
    /\ UNCHANGED <<devices, clock, reg, pu, pa, pt>>

\* One of the deleteToken calls issued by Promise.all runs.
KafkaDelete(t) ==
    LET targets == DeleteTokenTargets(devices, t)
    IN  /\ t \in kf.pending
        /\ targets \cap Locked = {}
        /\ devices' = devices \ targets
        /\ kf' = [kf EXCEPT !.pending = @ \ {t}, !.pruned = @ \cup {t},
                            !.pc = IF kf.pending = {t} THEN "idle" ELSE @,
                            !.outcome = IF kf.pending = {t} /\ kf.pc = "prune"
                                        THEN "done" ELSE @]
        /\ Observe(devices \ targets, {})
        /\ UNCHANGED <<clock, reg, pt>>

\* One of the deleteToken calls rejects: the handler rejects, the other
\* calls are still under way.
KafkaDeleteFails(t) ==
    /\ t \in kf.pending
    /\ kf' = [kf EXCEPT !.pending = @ \ {t}, !.pc = "idle",
                        !.outcome = IF kf.pc = "prune" THEN "rejected" ELSE @]
    /\ UNCHANGED <<devices, clock, reg, pu, pa, pt>>

\* now() advances
Tick ==
    /\ clock < MaxClock
    /\ clock' = clock + 1
    /\ UNCHANGED <<devices, reg, pu, pa, pt, kf>>

\* ------------------------------------------------------------------ Spec
\* The request bodies of POST /devices/register: every complete body, and
\* one body for each required field left out.
CompleteBodies ==
    [deviceId : DeviceIds, userId : UserIds, gameId : GameIds,
     fcmToken : Tokens]

RegisterBodies ==
    CompleteBodies \cup
    { [deviceId |-> NULL, userId |-> 1, gameId |-> 1, fcmToken |-> 1],
      [deviceId |-> 1, userId |-> NULL, gameId |-> 1, fcmToken |-> 1],
      [deviceId |-> 1, userId |-> 1, gameId |-> NULL, fcmToken |-> 1],
      [deviceId |-> 1, userId |-> 1, gameId |-> 1, fcmToken |-> NULL] }

LegacyTables ==
    {rows \in SUBSET {LegacyRow(d, u, t) : d \in DeviceIds, u \in {MaxUser},
                                           t \in Tokens} :
        WellFormed(rows)}

Init ==
    /\ devices \in LegacyTables
    /\ clock = 0
    /\ reg = [c \in RegClients |-> IdleReg]
    /\ pu = IdlePu
    /\ pa = IdlePa
    /\ pt = IdlePt
    /\ kf = IdleKf

Next ==
    \/ \E c \in RegClients, body \in RegisterBodies : RegisterRequest(c, body)
    \/ \E c \in RegClients : UpsertDelete(c)
    \/ \E c \in RegClients : UpsertMarkInactive(c)
    \/ \E c \in RegClients : UpsertInsert(c)
    \/ \E c \in RegClients : UpsertCommit(c)
    \/ \E c \in RegClients : UpsertFail(c)
    \/ \E d \in DeviceIds, t \in Tokens, u \in UserIds, g \in GameIds :
          DevicesRemove(d, t, u, g)
    \/ \E t \in Tokens : DeleteToken(t)

Spec == Init /\ [][Next]_vars

\* ------------------------------------------------------- SpecUser
\* Tables a sequence of registrations can have produced (and legacy rows).
SmallTables ==
    {rows \in SUBSET ({Row(d, u, g, t, TRUE, 0) :
                          d \in DeviceIds, u \in UserIds, g \in GameIds,
                          t \in Tokens}
                      \cup {LegacyRow(d, u, t) :
                          d \in DeviceIds, u \in UserIds, t \in Tokens}) :
        WellFormed(rows)}

\* the registering client's bodies: those for user 1, and the incomplete ones
UserBodies == {body \in RegisterBodies : body.userId # MaxUser}

InitUser ==
    /\ devices \in SmallTables
    /\ clock = 0
    /\ reg = [c \in RegClients |-> IdleReg]
    /\ pu = IdlePu
    /\ pa = IdlePa
    /\ pt = IdlePt
    /\ kf = IdleKf

\* /push/user dispatches, for any user, next to one registering client
NextUser ==
    \/ \E u \in UserIds \cup {NULL, 0}, title \in BOOLEAN, body \in BOOLEAN :
          PushUserRequest(u, title, body)
    \/ PushUserSend
    \/ PushUserRaise
    \/ \E t \in pu.pending : PushUserDelete(t)
    \/ \E t \in pu.pending : PushUserDeleteFails(t)
    \/ PushUserRespond
    \/ \E body \in UserBodies : RegisterRequest(1, body)
    \/ UpsertDelete(1)
    \/ UpsertMarkInactive(1)
    \/ UpsertInsert(1)
    \/ UpsertCommit(1)
    \/ UpsertFail(1)
    \/ Tick

SpecUser == InitUser /\ [][NextUser]_vars

\* ------------------------------------------------------- SpecDispatch
\* /push/user dispatches over long token lists: the handler has looked up
\* the n tokens of user 1 and enters its loop over the chunks.
DispatchSizes ==
    {1, ChunkSize - 1, ChunkSize, ChunkSize + 1, 2 * ChunkSize,
     2 * ChunkSize + 1, MaxTokens}

InitDispatch ==
    \E n \in DispatchSizes :
        /\ devices = {Row(i, 1, 1, i, TRUE, 0) : i \in 1..n}
        /\ clock = 0
        /\ reg = [c \in RegClients |-> IdleReg]
        /\ pu = [IdlePu EXCEPT !.pc = "send", !.userId = 1,
                               !.tokens = [i \in 1..n |-> i], !.idx = 1]
        /\ pa = IdlePa
        /\ pt = IdlePt
        /\ kf = IdleKf

NextDispatch ==
    \/ PushUserSend
    \/ PushUserRaise
    \/ \E t \in pu.pending : PushUserDelete(t)
    \/ \E t \in pu.pending : PushUserDeleteFails(t)
    \/ PushUserRespond

SpecDispatch == InitDispatch /\ [][NextDispatch]_vars

\* ------------------------------------------------------- SpecBroadcast
\* /push/all over registries of up to MaxActive active devices and one
\* inactive device, next to deleteToken.
BroadcastSizes == {0, 1, limit, limit + 1, 2 * limit + 1, MaxActive}

InitBroadcast ==
    \E n \in BroadcastSizes :
        /\ devices = {Row(i, 1, 1, i, TRUE, i % 2) : i \in 1..n}
                     \cup {LegacyRow(n + 1, 1, n + 1)}
        /\ clock = 0
        /\ reg = [c \in RegClients |-> IdleReg]
        /\ pu = IdlePu
        /\ pa = IdlePa
        /\ pt = IdlePt
        /\ kf = IdleKf

NextBroadcast ==
    \/ \E title \in BOOLEAN, body \in BOOLEAN : PushAllRequest(title, body)
    \/ PushAllPage
    \/ PushAllSend
    \/ PushAllRaise
    \/ \E t \in Tokens : DeleteToken(t)

SpecBroadcast == InitBroadcast /\ [][NextBroadcast]_vars

\* ------------------------------------------------------- SpecDirect
\* /push/token and /push/all over small registries, next to deleteToken.
DirectSizes == {1, NumDevices, limit + 1}

InitDirect ==
    \E n \in DirectSizes :
        /\ devices = {Row(i, 1, 1, i, TRUE, i % 2) : i \in 1..n}
        /\ clock = 0
        /\ reg = [c \in RegClients |-> IdleReg]
        /\ pu = IdlePu
        /\ pa = IdlePa
        /\ pt = IdlePt
        /\ kf = IdleKf

NextDirect ==
    \/ \E token \in Tokens \cup {NULL}, title \in BOOLEAN, body \in BOOLEAN :
          PushToken(token, title, body)
    \/ \E title \in BOOLEAN, body \in BOOLEAN : PushAllRequest(title, body)
    \/ PushAllPage
    \/ PushAllSend
    \/ PushAllRaise
    \/ \E t \in Tokens : DeleteToken(t)

SpecDirect == InitDirect /\ [][NextDirect]_vars

\* ------------------------------------------------------- SpecAbort
\* A /push/user dispatch and an event dispatch for the same user, each in
\* its loop over the chunks of the user's n tokens.
AbortSizes == {ChunkSize + 1, 2 * ChunkSize}

InitAbort ==
    \E n \in AbortSizes :
        /\ devices = {Row(i, 1, 1, i, TRUE, 0) : i \in 1..n}
        /\ clock = 0
        /\ reg = [c \in RegClients |-> IdleReg]
        /\ pu = [IdlePu EXCEPT !.pc = "send", !.userId = 1,
                               !.tokens = [i \in 1..n |-> i], !.idx = 1]
        /\ pa = IdlePa
        /\ pt = IdlePt
        /\ kf = [IdleKf EXCEPT !.pc = "send", !.raw = JsNumber(2),
                               !.lookups = 1,
                               !.tokens = [i \in 1..n |-> i], !.idx = 1]

NextAbort ==
    \/ PushUserSend
    \/ PushUserRaise
    \/ \E t \in pu.pending : PushUserDelete(t)
    \/ \E t \in pu.pending : PushUserDeleteFails(t)
    \/ PushUserRespond
    \/ KafkaSend
    \/ KafkaRaise
    \/ \E t \in kf.pending : KafkaDelete(t)
    \/ \E t \in kf.pending : KafkaDeleteFails(t)

SpecAbort == InitAbort /\ [][NextAbort]_vars

\* ------------------------------------------------------- SpecRace
\* Two upsertDevice calls for the same device, both past BEGIN, over every
\* small table: the interleavings of their statements.
Begun(body) ==
    [IdleReg EXCEPT !.pc = "delete", !.deviceId = body.deviceId,
                    !.userId = body.userId, !.gameId = body.gameId,
                    !.fcmToken = body.fcmToken, !.txStart = 0]

InitRace ==
    /\ devices \in SmallTables
    /\ clock = 0
    /\ \E b1 \in CompleteBodies, b2 \in CompleteBodies :
          /\ b1.deviceId = b2.deviceId
          /\ reg = [c \in RegClients |->
                        IF c = 1 THEN Begun(b1) ELSE Begun(b2)]
    /\ pu = IdlePu
    /\ pa = IdlePa
    /\ pt = IdlePt
    /\ kf = IdleKf

NextRace ==
    \/ \E c \in RegClients : UpsertDelete(c)
    \/ \E c \in RegClients : UpsertMarkInactive(c)
    \/ \E c \in RegClients : UpsertInsert(c)
    \/ \E c \in RegClients : UpsertCommit(c)
    \/ \E c \in RegClients : UpsertFail(c)

SpecRace == InitRace /\ [][NextRace]_vars

\* ------------------------------------------------------- SpecHttp
\* The single-message routes of both server variants and /push/all, over
\* small registries, next to deleteToken.
NextHttp ==
    \/ \E token \in Tokens \cup {NULL}, title \in BOOLEAN, body \in BOOLEAN :
          PushToken(token, title, body)
    \/ \E token \in Tokens \cup {NULL}, title \in BOOLEAN, body \in BOOLEAN :
          BasePushToken(token, title, body)
    \/ \E title \in BOOLEAN, body \in BOOLEAN : BasePushTopic(title, body)
    \/ \E title \in BOOLEAN, body \in BOOLEAN : PushAllRequest(title, body)
    \/ PushAllPage
    \/ PushAllSend
    \/ PushAllRaise
    \/ \E t \in Tokens : DeleteToken(t)

SpecHttp == InitDirect /\ [][NextHttp]_vars

\* ------------------------------------------------------- SpecKafka
\* The values of data.userId a JSON event can carry.
RawUserIds ==
    {JsUndefined}
    \cup {JsString(text) : text \in {"", "abc", "0", "1", "2", "-1", "1.5"}}
    \cup {JsNumber(h) : h \in {0, 2, 4, -2, 3}}

\* Tables of registered devices; /devices/register takes any userId that
\* is not null.
KafkaTables ==
    SUBSET {Row(d, u, 1, d, a, 0) : d \in DeviceIds, u \in {-1, 1},
                                    a \in BOOLEAN}

InitKafka ==
    /\ devices \in {rows \in KafkaTables : WellFormed(rows)}
    /\ clock = 0
    /\ reg = [c \in RegClients |-> IdleReg]
    /\ pu = IdlePu
    /\ pa = IdlePa
    /\ pt = IdlePt
    /\ kf = IdleKf

NextKafka ==
    \/ \E valid \in BOOLEAN,
          eventName \in {"SendUserNotification", "SomethingElse"},
          rawUserId \in RawUserIds, title \in BOOLEAN, body \in BOOLEAN :
          KafkaMessage(valid, eventName, rawUserId, title, body)
    \/ KafkaSend
    \/ KafkaRaise
    \/ \E t \in kf.pending : KafkaDelete(t)
    \/ \E t \in kf.pending : KafkaDeleteFails(t)

SpecKafka == InitKafka /\ [][NextKafka]_vars

\* ======================================================= properties

\* C1: in every committed state of the table, under every interleaving of
\* registrations, removals and prunes, no two rows hold the same fcmToken.
C1_TokenUnique ==
    \A r1, r2 \in devices : r1.fcmToken = r2.fcmToken => r1 = r2

\* two registrations that ran concurrently have both committed and the
\* table holds two rows
C1_Witness ==
    /\ \A c \in RegClients : reg[c].pc = "done" /\ reg[c].status = 200
    /\ Cardinality(devices) = 2

\* the step in which client c's upsertDevice commits
CommitStep(c) == reg[c].pc = "commit" /\ reg'[c].pc = "done"

\* C2: when a registration of device D with token T2 commits while D's row
\* held another token T1, the table then holds exactly one row for D, that
\* row holds T2, and T1 is bound to no device.
C2_ReRegister ==
    [][\A c \in RegClients : CommitStep(c) =>
         LET D == reg[c].deviceId
             T2 == reg[c].fcmToken
         IN  /\ Cardinality({r \in devices' : r.deviceId = D}) = 1
             /\ \A r \in devices' : r.deviceId = D => r.fcmToken = T2
             /\ \A r \in devices :
                   (r.deviceId = D /\ r.fcmToken # T2)
                       => r.fcmToken \notin TokensOf(devices')]_vars

\* a registration has committed over a row of the same device, written by
\* an earlier registration, that held another token
C2_Witness ==
    \E c \in RegClients :
        /\ reg[c].pc = "done" /\ reg[c].status = 200
        /\ \E r \in reg[c].del :
              /\ r.deviceId = reg[c].deviceId
              /\ r.fcmToken # reg[c].fcmToken
              /\ r.active
        /\ \E r \in devices :
              r.deviceId = reg[c].deviceId /\ r.fcmToken = reg[c].fcmToken

\* C3: when a registration of device D2 with token T commits while T was
\* bound to another device D1, D1's row is gone, T is bound to D2 only, and
\* a lookup for D1's user returns T for no device but D2.
C3_TokenReassigned ==
    [][\A c \in RegClients : CommitStep(c) =>
         LET D2 == reg[c].deviceId
             T == reg[c].fcmToken
         IN  \A r \in devices :
               (r.fcmToken = T /\ r.deviceId # D2) =>
                   /\ ~ \E q \in devices' : q.deviceId = r.deviceId
                   /\ {q.deviceId : q \in {x \in devices' : x.fcmToken = T}}
                          = {D2}
                   /\ T \notin getTokensByUserId(
                          {q \in devices' : q.deviceId # D2}, r.userId)]_vars

\* a registration has committed that evicted another device's row holding
\* its token
C3_Witness ==
    \E c \in RegClients :
        /\ reg[c].pc = "done" /\ reg[c].status = 200
        /\ \E r \in reg[c].del :
              r.deviceId # reg[c].deviceId /\ r.fcmToken = reg[c].fcmToken
        /\ \E r \in devices :
              r.deviceId = reg[c].deviceId /\ r.fcmToken = reg[c].fcmToken

\* C7: in every state of the table and for every user u, getTokensByUserId
\* returns only tokens of rows of user u that are active, and never the
\* token of an inactive row.
C7_ActiveOnly ==
    \A u \in UserIds :
        \A t \in getTokensByUserId(devices, u) :
            /\ \E r \in devices : r.fcmToken = t /\ r.userId = u /\ r.active
            /\ ~ \E r \in devices : r.fcmToken = t /\ ~ r.active

\* a user has an inactive row and an active one: the lookup returns a
\* token, and not the inactive row's
C7_Witness ==
    \E r \in devices :
        /\ ~ r.active
        /\ getTokensByUserId(devices, r.userId) # {}
        /\ r.fcmToken \notin getTokensByUserId(devices, r.userId)

\* C8: a step of an upsertDevice call other than its COMMIT leaves the
\* committed table as it is, the ROLLBACK of a failed call included (an
\* evicted row is still there, the device's row is not inactive), and a
\* failed call is answered with the error (500).
C8_Atomic ==
    [][\A c \in RegClients :
         (reg'[c] # reg[c] /\ ~ CommitStep(c)) =>
             /\ devices' = devices
             /\ (reg[c].pc \in {"delete", "update", "insert"}
                    /\ reg'[c].pc = "done") => reg'[c].status = 500]_vars

\* a call has failed after it deleted or superseded committed rows, and the
\* rows are all in the table
C8_Witness ==
    \E c \in RegClients :
        /\ reg[c].pc = "done" /\ reg[c].status = 500
        /\ \E r \in reg[c].del : r.deviceId # reg[c].deviceId
        /\ \E r \in reg[c].del : r.deviceId = reg[c].deviceId
        /\ reg[c].del \subseteq devices

PermanentCodes ==
    {"messaging/registration-token-not-registered",
     "messaging/invalid-registration-token"}

\* C4: when a /push/user dispatch has got through its chunks and its
\* deletions and answers with its result, every token the provider failed
\* with a not-registered or invalid-token code has been deleted, and it is
\* in the table, or returned by a lookup for any user, only if a
\* registration committed it after the deletion.
C4_DeadPruned ==
    ((pu.pc = "prune" /\ pu.pending = {}) \/ (pu.pc = "idle" /\ pu.status = 200))
        => \A res \in pu.results :
             res[2] \in PermanentCodes =>
                 /\ res[1] \in pu.pruned
                 /\ res[1] \in TokensOf(devices) => res[1] \in pu.registered
                 /\ \A u \in UserIds :
                       res[1] \in getTokensByUserId(devices, u)
                           => res[1] \in pu.registered

\* a dispatch has answered 200 after the provider failed one token as
\* not registered and one as invalid, and neither is in the table
C4_Witness ==
    /\ pu.pc = "idle" /\ pu.status = 200
    /\ \E res \in pu.results :
          res[2] = "messaging/invalid-registration-token"
    /\ \E res \in pu.results :
          res[2] = "messaging/registration-token-not-registered"
    /\ \A res \in pu.results : res[1] \notin TokensOf(devices)
\* the concatenation of the batches handed to the provider
RECURSIVE Concat(_)
Concat(seqs) ==
    IF seqs = <<>> THEN <<>> ELSE Head(seqs) \o Concat(Tail(seqs))

\* C5: the multicast calls of a dispatch over n > 0 tokens are, in order,
\* the contiguous pieces of the token list, each of exactly 500 tokens but
\* the last; a dispatch in which no call raised has made exactly
\* ceil(n/500) calls, whose concatenation is the list, and (the provider
\* counting every token of a call once) sent + failed = n.
C5_Chunks ==
    LET n == Len(pu.tokens)
        k == Len(pu.calls)
        finished == pu.pc = "prune" \/ (pu.pc = "idle" /\ pu.status = 200)
    IN  n > 0 =>
          /\ \A i \in 1..k :
                /\ pu.calls[i] = SubSeq(pu.tokens, 500 * (i - 1) + 1,
                                        IF 500 * i < n THEN 500 * i ELSE n)
                /\ Len(pu.calls[i]) > 0
                /\ 500 * i < n => Len(pu.calls[i]) = 500
          /\ finished =>
                /\ k = (n + 499) \div 500
                /\ Concat(pu.calls) = pu.tokens
                /\ pu.sent + pu.failed = n

\* a dispatch over 1200 tokens has answered after batches of 500, 500, 200
C5_Witness ==
    /\ pu.pc = "idle" /\ pu.status = 200
    /\ Len(pu.tokens) = 1200
    /\ [i \in 1..Len(pu.calls) |-> Len(pu.calls[i])] = <<500, 500, 200>>
    /\ pu.sent + pu.failed = 1200
    /\ pu.failed > 0

\* C6: a /push/all dispatch that has answered with its result, over a table
\* nothing else wrote to since the dispatch began, has read, for the N
\* active rows of the table, exactly ceil(N/20) pages, at the offsets
\* 0, 20, 40, ... in this order, and the pages together hold the token of
\* every active row exactly once.
C6_Paging ==
    (pa.pc = "idle" /\ pa.status = 200 /\ ~ pa.changed) =>
        LET active == {r \in devices : r.active}
            N == Cardinality(active)
        IN  /\ Len(pa.offsets) = (N + 19) \div 20
            /\ \A i \in 1..Len(pa.offsets) : pa.offsets[i] = 20 * (i - 1)
            /\ Len(pa.fetched) = N
            /\ Range(pa.fetched) = {r.fcmToken : r \in active}

\* a dispatch over 45 active rows has answered after the pages at 0, 20, 40
C6_Witness ==
    /\ pa.pc = "idle" /\ pa.status = 200 /\ ~ pa.changed
    /\ pa.offsets = <<0, 20, 40>>
    /\ Len(pa.fetched) = 45
    /\ pa.sent + pa.failed = 45

\* C9: once a /push/token or a /push/all dispatch is over, no token the
\* provider failed during it with a not-registered or invalid-token code is
\* left in the table (nothing else having written to the table meanwhile).
C9_InvalidDeleted ==
    /\ (pa.pc = "idle" /\ pa.status = 200 /\ ~ pa.changed) =>
          \A res \in pa.reported :
              res[2] \in PermanentCodes => res[1] \notin TokensOf(devices)
    /\ (pt.status # 0 /\ pt.code \in PermanentCodes) =>
          pt.token \notin TokensOf(devices)

\* the values of data.userId that parse as a positive integer
PositiveIntegerIds ==
    {JsString("1"), JsString("2"), JsNumber(2), JsNumber(4)}

\* C10: the handler of SendUserNotification looks up tokens, and calls the
\* provider, only for an event whose userId parses as a positive integer.
C10_PositiveUserId ==
    (kf.lookups > 0 \/ kf.calls # <<>>) => kf.raw \in PositiveIntegerIds

\* C11: when the provider call for chunk i of a /push/user dispatch has
\* raised, the request has ended with a 500 response, the calls made are
\* exactly those for the chunks before i, which stay delivered and counted,
\* and no call for a later chunk is ever made.
C11_RaiseAborts ==
    pu.raised > 0 =>
        /\ pu.pc = "idle" /\ pu.status = 500
        /\ Len(pu.calls) = pu.raised - 1
        /\ \A j \in 1..Len(pu.calls) :
              pu.calls[j] = SubSeq(pu.tokens, 500 * (j - 1) + 1, 500 * j)
        /\ pu.sent + pu.failed = 500 * (pu.raised - 1)

\* over 1200 tokens the call for the second chunk has raised: one call
\* was made, the third chunk is abandoned
C11_Witness ==
    /\ pu.raised = 2 /\ Len(pu.tokens) = 1200
    /\ pu.status = 500
    /\ Len(pu.calls) = 1 /\ Len(pu.calls[1]) = 500
    /\ pu.sent + pu.failed = 500

\* a JSON body that carries an explicit boolean field ok
HasOk(b) == "ok" \in DOMAIN b /\ b.ok \in BOOLEAN

\* C12: the body of every answer of every route, of either server variant,
\* carries a boolean field ok; and a request answered 400 has changed no
\* row and made no provider call.
C12_OkField ==
    /\ \A c \in RegClients : reg[c].status # 0 => HasOk(RegisterBody(c))
    /\ pu.status # 0 => HasOk(PushUserBody)
    /\ pa.status # 0 => HasOk(PushAllBody)
    /\ pt.status # 0 => HasOk(PushTokenBody)
    /\ \A c \in RegClients :
          reg[c].status = 400 => reg[c].del = {} /\ reg[c].ins = {}
    /\ pu.status = 400 => pu.calls = <<>> /\ pu.pruned = {}
    /\ pa.status = 400 => pa.offsets = <<>> /\ pa.sent + pa.failed = 0
    /\ pt.status = 400 => pt.token = NULL /\ pt.code = ""

\* C13: of two upsert calls for one device whose transactions overlap,
\* each commit leaves exactly one row for the device, active, holding the
\* token, user and game of the call that commits; so after both have
\* committed the row is that of the call that committed last, and no row
\* takes fields from both.
C13_LastWriterWins ==
    [][\A c \in RegClients : CommitStep(c) =>
         {r \in devices' : r.deviceId = reg[c].deviceId}
            = {Row(reg[c].deviceId, reg[c].userId, reg[c].gameId,
                   reg[c].fcmToken, TRUE, reg[c].txStart)}]_vars

\* both calls have committed, with different tokens and users; the second
\* superseded the row the first had committed, and the device's one row is
\* the second's
C13_Witness ==
    \E c \in RegClients, o \in RegClients :
        /\ c # o
        /\ reg[c].pc = "done" /\ reg[c].status = 200
        /\ reg[o].pc = "done" /\ reg[o].status = 200
        /\ reg[c].fcmToken # reg[o].fcmToken
        /\ reg[c].userId # reg[o].userId
        /\ \E r \in reg[c].del :
              /\ r.deviceId = reg[o].deviceId
              /\ r.fcmToken = reg[o].fcmToken
              /\ r.userId = reg[o].userId
              /\ r.active
        /\ \A r \in devices :
              r.deviceId = reg[c].deviceId =>
                  r.fcmToken = reg[c].fcmToken /\ r.userId = reg[c].userId
        /\ \E r \in devices : r.deviceId = reg[c].deviceId

\* C14: a user-targeted dispatch, by /push/user or by the event handler,
\* in which a provider call has raised deletes nothing, then or later: the
\* tokens it had classified as dead in earlier chunks are still in the
\* table, unless the other dispatch deleted them.
C14_RaiseDeletesNothing ==
    /\ pu.raised > 0 =>
          /\ pu.pruned = {} /\ pu.pending = {}
          /\ \A t \in Range(pu.deadTokens) :
                t \in TokensOf(devices) \/ t \in kf.pruned
    /\ kf.raised > 0 =>
          /\ kf.pruned = {} /\ kf.pending = {}
          /\ \A t \in Range(kf.deadTokens) :
                t \in TokensOf(devices) \/ t \in pu.pruned

\* both dispatches have raised on a later chunk after classifying tokens of
\* an earlier chunk as dead, and those tokens are still registered
C14_Witness ==
    /\ pu.raised > 1 /\ pu.deadTokens # <<>>
    /\ kf.raised > 1 /\ kf.deadTokens # <<>>
    /\ Range(pu.deadTokens) \cup Range(kf.deadTokens) \subseteq TokensOf(devices)
====
